---- MODULE Spec2Model ----
(***************************************************************************)
(* Model of the ember-cli-addon-docs scaffolder (setupDoc).  Two variants  *)
(* of the script are in the repository:                                    *)
(*   "lib"     src/lib/setupDoc.js   (emitters take testAppRoot)           *)
(*   "unnamed" src/unnamed/part_000  (emitters take addonRoot + testApp)   *)
(* The file system is a set of directories and a map from file paths to    *)
(* byte contents; paths are sequences of components below the parent of    *)
(* INIT_CWD.  File contents and strings are sequences of tokens: a token   *)
(* is a run of text, BadByte is a byte sequence that is not valid UTF-8.   *)
(* The initial file system is a well-typed tree: every file and directory  *)
(* has its parent directory, and no path is both a file and a directory.   *)
(***************************************************************************)
EXTENDS Integers, Sequences, FiniteSets, TLC

VARIABLES variant, files, dirs, log, err, writes, pc, todo,
          addonName, repoUrl, run, pre

vars == <<variant, files, dirs, log, err, writes, pc, todo,
          addonName, repoUrl, run, pre>>

\* ---------------------------------------------------------------- bounds
MaxRuns == 2

\* ---------------------------------------------------------------- paths
Variants == {"lib", "unnamed"}

INIT_CWD == <<"test-app">>

testApp == <<"test-app", "app">>

RECURSIVE Normalize(_)
Normalize(p) ==
  IF p = <<>> THEN <<>>
  ELSE LET q == Normalize(SubSeq(p, 1, Len(p) - 1))
           c == p[Len(p)]
       IN  IF c = ".." THEN (IF q = <<>> THEN <<>> ELSE SubSeq(q, 1, Len(q) - 1))
           ELSE Append(q, c)

PathJoin(a, b) == Normalize(a \o b)

Dirname(p) == IF p = <<>> THEN <<>> ELSE SubSeq(p, 1, Len(p) - 1)

Ancestors(p) == {SubSeq(p, 1, n) : n \in 0..Len(p)}

addonRoot == PathJoin(INIT_CWD, <<"..", "addon">>)

testAppRoot == INIT_CWD

pkgPath == PathJoin(addonRoot, <<"package.json">>)

readmePath == PathJoin(addonRoot, <<"README.md">>)

routerPath(v) ==
  IF v = "lib" THEN PathJoin(testAppRoot, <<"app", "router.js">>)
  ELSE PathJoin(addonRoot, testApp \o <<"router.js">>)

appTemplatePath(v) ==
  IF v = "lib" THEN PathJoin(testAppRoot, <<"app", "templates", "application.hbs">>)
  ELSE PathJoin(addonRoot, testApp \o <<"templates", "application.hbs">>)

docsDir(v) ==
  IF v = "lib" THEN PathJoin(testAppRoot, <<"app", "templates", "docs">>)
  ELSE PathJoin(addonRoot, testApp \o <<"templates", "docs">>)

docsFile(v) == PathJoin(docsDir(v), <<"index.md">>)

docsLayoutPath(v) ==
  IF v = "lib" THEN PathJoin(testAppRoot, <<"app", "templates", "docs.hbs">>)
  ELSE PathJoin(addonRoot, testApp \o <<"templates", "docs.hbs">>)

\* In the lib variant createIndexLayout never computes its path (testApp is
\* not declared there); ConsumerRoot/app/templates/index.hbs is where the
\* other emitters of that variant put their templates.
ConsumerRoot(v) == IF v = "lib" THEN testAppRoot ELSE PathJoin(addonRoot, <<"test-app">>)

indexLayoutPath(v) == PathJoin(ConsumerRoot(v), <<"app", "templates", "index.hbs">>)

\* ------------------------------------------------------------- encodings
BadByte == "\\xFF"

ReplacementChar == "\\uFFFD"

LoneSurrogate == "\\uD800"

Utf8Decode(bytes) ==
  [i \in DOMAIN bytes |-> IF bytes[i] = BadByte THEN ReplacementChar ELSE bytes[i]]

Utf8Encode(str) ==
  [i \in DOMAIN str |-> IF str[i] = LoneSurrogate THEN ReplacementChar ELSE str[i]]

WhiteSpace == {"\n", "\n  ", " "}

RECURSIVE TrimStart(_)
TrimStart(s) ==
  IF s # <<>> /\ Head(s) \in WhiteSpace THEN TrimStart(Tail(s)) ELSE s

RECURSIVE TrimEnd(_)
TrimEnd(s) ==
  IF s # <<>> /\ s[Len(s)] \in WhiteSpace THEN TrimEnd(SubSeq(s, 1, Len(s) - 1)) ELSE s

Trim(s) == TrimEnd(TrimStart(s))

\* JavaScript values read from the manifest
Undefined == [t |-> "undefined", v |-> ""]

Str(s) == [t |-> "string", v |-> s]

Obj == [t |-> "object", v |-> "{\"type\":\"git\",\"url\":\"https://x\"}"]

JsToString(x) ==
  IF x.t = "undefined" THEN "undefined"
  ELSE IF x.t = "object" THEN "[object Object]"
  ELSE x.v

\* ------------------------------------------------------------- templates
routerContent ==
  <<"import AddonDocsRouter, { docsRoute } from 'ember-cli-addon-docs/router'; ... export default Router;">>

placeholderContent == <<"# Documentation\n\nAddon documentation goes here.">>

indexLayout == Trim(<<"<DocsHero/> ... <DocsDemo as |demo|> ... </div>", "\n  ">>)

docsLayout == Trim(<<"\n", "<DocsViewer as |viewer|> ... {{outlet}} ... </DocsViewer>", "\n  ">>)

applicationContent(name, repo) ==
  Trim(<<"\n", "{{page-title \"", JsToString(name), "\"}}\n<DocsHeader @prefix=\"Droid\" @name=\"",
         JsToString(name), "\" @githubUrl=\"", JsToString(repo), "\" />\n{{outlet}}", "\n  ">>)

\* ------------------------------------------------------------- manifests
NoManifest == [kind |-> "none", name |-> Undefined, repository |-> Undefined]

ManifestTexts ==
  { "{ not json",
    "null",
    "{}",
    "{\"name\":\"Foo\"}",
    "{\"repository\":\"https://x\"}",
    "{\"name\":\"Foo\",\"repository\":\"https://x\"}",
    "{\"name\":\"Foo\",\"repository\":{\"type\":\"git\",\"url\":\"https://x\"}}",
    "{\"repository\":{\"type\":\"git\",\"url\":\"https://x\"}}" }

\* JSON.parse on the manifest texts above: ok = FALSE is a SyntaxError
JSONParse(str) ==
  LET t == IF Len(str) = 1 THEN str[1] ELSE "" IN
  CASE t = "null" -> [ok |-> TRUE, val |-> [kind |-> "null", name |-> Undefined, repository |-> Undefined]]
    [] t = "{}" -> [ok |-> TRUE, val |-> [kind |-> "object", name |-> Undefined, repository |-> Undefined]]
    [] t = "{\"name\":\"Foo\"}" ->
         [ok |-> TRUE, val |-> [kind |-> "object", name |-> Str("Foo"), repository |-> Undefined]]
    [] t = "{\"repository\":\"https://x\"}" ->
         [ok |-> TRUE, val |-> [kind |-> "object", name |-> Undefined, repository |-> Str("https://x")]]
    [] t = "{\"name\":\"Foo\",\"repository\":\"https://x\"}" ->
         [ok |-> TRUE, val |-> [kind |-> "object", name |-> Str("Foo"), repository |-> Str("https://x")]]
    [] t = "{\"name\":\"Foo\",\"repository\":{\"type\":\"git\",\"url\":\"https://x\"}}" ->
         [ok |-> TRUE, val |-> [kind |-> "object", name |-> Str("Foo"), repository |-> Obj]]
    [] t = "{\"repository\":{\"type\":\"git\",\"url\":\"https://x\"}}" ->
         [ok |-> TRUE, val |-> [kind |-> "object", name |-> Undefined, repository |-> Obj]]
    [] OTHER -> [ok |-> FALSE, val |-> NoManifest]

\* ----------------------------------------------------------- file system
\* A process state s is a record [files, dirs, log, err, writes].
existsSync(s, p) == p \in s.dirs \/ p \in DOMAIN s.files

Throw(s, e) == IF s.err = "none" THEN [s EXCEPT !.err = e] ELSE s

ConsoleLog(s, line) == [s EXCEPT !.log = Append(@, <<"log">> \o line)]

ConsoleWarn(s, line) == [s EXCEPT !.log = Append(@, <<"warn">> \o line)]

mkdirSyncRecursive(s, d) == [s EXCEPT !.dirs = @ \cup Ancestors(d)]


\* mutant: the directory is never created
ensureDirSkip(s, d) == s

ensureDir(s, d) == IF ~existsSync(s, d) THEN mkdirSyncRecursive(s, d) ELSE s

readFileSync(s, p) == Utf8Decode(s.files[p])

\* writeFileSync fails with ENOENT when the parent directory is missing
writeFileSync(s, p, str) ==
  IF Dirname(p) \in s.dirs
  THEN [s EXCEPT !.files = (p :> Utf8Encode(str)) @@ @,
                 !.writes = Append(@, [path |-> p, parent |-> TRUE])]
  ELSE Throw([s EXCEPT !.writes = Append(@, [path |-> p, parent |-> FALSE])], "ENOENT")

\* --------------------------------------------------------------- emitters
WarnRouter == <<"router.js not found, skipping router setup.">>

WarnReadme == <<"README.md not found, creating a placeholder index.md.">>

WarnManifest == <<"Could not find parent package.json">>

Banner == <<"ember-cli-addon-docs setup completed successfully!">>


\* mutant: the template is appended to what the file held
updateRouterAppend(s, v) ==
  IF ~existsSync(s, routerPath(v)) THEN ConsoleWarn(s, WarnRouter)
  ELSE ConsoleLog(writeFileSync(s, routerPath(v), readFileSync(s, routerPath(v)) \o routerContent),
                  <<"Updated router.js">>)

\* mutant: no existence check before the write
updateRouterNoCheck(s, v) ==
  LET w == writeFileSync(s, routerPath(v), routerContent)
  IN  IF w.err # "none" THEN w ELSE ConsoleLog(w, <<"Updated router.js">>)

updateRouter(s, v) ==
  IF ~existsSync(s, routerPath(v)) THEN ConsoleWarn(s, WarnRouter)
  ELSE LET w == writeFileSync(s, routerPath(v), routerContent)
       IN  IF w.err # "none" THEN w ELSE ConsoleLog(w, <<"Updated router.js">>)


\* mutant: the new template is written in front of the old content
updateApplicationTemplatePrepend(s, v, name, repo) ==
  LET e == ensureDir(s, Dirname(appTemplatePath(v)))
      old == IF existsSync(e, appTemplatePath(v)) THEN readFileSync(e, appTemplatePath(v)) ELSE <<>>
  IN  ConsoleLog(writeFileSync(e, appTemplatePath(v), applicationContent(name, repo) \o old),
                 <<"Updated application.hbs">>)

updateApplicationTemplate(s, v, name, repo) ==
  LET e == ensureDir(s, Dirname(appTemplatePath(v)))
      w == writeFileSync(e, appTemplatePath(v), applicationContent(name, repo))
  IN  IF w.err # "none" THEN w ELSE ConsoleLog(w, <<"Updated application.hbs">>)


\* mutant: the README is trimmed on the way through
createDocsIndexTrim(s, v) ==
  LET e == ensureDir(s, docsDir(v)) IN
  IF ~existsSync(e, readmePath)
  THEN writeFileSync(ConsoleWarn(e, WarnReadme), docsFile(v), placeholderContent)
  ELSE ConsoleLog(writeFileSync(e, docsFile(v), Trim(readFileSync(e, readmePath))),
                  <<"Created docs/index.md from README.md">>)

\* mutant: the README is read without the existence check
createDocsIndexNoCheck(s, v) ==
  LET e == ensureDir(s, docsDir(v)) IN
  IF ~existsSync(e, readmePath) THEN Throw(e, "ENOENT")
  ELSE ConsoleLog(writeFileSync(e, docsFile(v), readFileSync(e, readmePath)),
                  <<"Created docs/index.md from README.md">>)

createDocsIndex(s, v) ==
  LET e == ensureDir(s, docsDir(v)) IN
  IF ~existsSync(e, readmePath)
  THEN writeFileSync(ConsoleWarn(e, WarnReadme), docsFile(v), placeholderContent)
  ELSE LET w == writeFileSync(e, docsFile(v), readFileSync(e, readmePath))
       IN  IF w.err # "none" THEN w
           ELSE ConsoleLog(w, <<"Created docs/index.md from README.md">>)

\* lib: path.join(addonRoot, testApp, ...) reads the undeclared identifier
\* testApp, a ReferenceError, before ensureDir or any write.
createIndexLayout(s, v) ==
  IF v = "lib" THEN Throw(s, "ReferenceError")
  ELSE LET e == ensureDir(s, Dirname(indexLayoutPath(v)))
           w == writeFileSync(e, indexLayoutPath(v), indexLayout)
       IN  IF w.err # "none" THEN w ELSE ConsoleLog(w, <<"Created index.hbs">>)

createDocsLayout(s, v) ==
  LET e == ensureDir(s, Dirname(docsLayoutPath(v)))
      w == writeFileSync(e, docsLayoutPath(v), docsLayout)
  IN  IF w.err # "none" THEN w ELSE ConsoleLog(w, <<"Created docs.hbs">>)


\* mutant: a parse failure is caught and treated like a missing manifest
getParentPackageInfoCatch(s) ==
  IF ~existsSync(s, pkgPath)
  THEN [s |-> ConsoleWarn(s, WarnManifest), info |-> [NoManifest EXCEPT !.kind = "object"]]
  ELSE LET r == JSONParse(readFileSync(s, pkgPath))
       IN  IF r.ok THEN [s |-> s, info |-> r.val]
           ELSE [s |-> ConsoleWarn(s, WarnManifest), info |-> [NoManifest EXCEPT !.kind = "object"]]

\* result record: [s, info]
getParentPackageInfo(s) ==
  IF ~existsSync(s, pkgPath)
  THEN [s |-> ConsoleWarn(s, WarnManifest), info |-> [NoManifest EXCEPT !.kind = "object"]]
  ELSE LET r == JSONParse(readFileSync(s, pkgPath))
       IN  IF r.ok THEN [s |-> s, info |-> r.val]
           ELSE [s |-> Throw(s, "SyntaxError"), info |-> NoManifest]

Emitters ==
  {"updateRouter", "updateApplicationTemplate", "createDocsIndex",
   "createIndexLayout", "createDocsLayout"}

SetupOrder ==
  <<"updateRouter", "updateApplicationTemplate", "createDocsIndex",
    "createIndexLayout", "createDocsLayout">>

RunEmitter(e, s, v, name, repo) ==
  CASE e = "updateRouter" -> updateRouter(s, v)
    [] e = "updateApplicationTemplate" -> updateApplicationTemplate(s, v, name, repo)
    [] e = "createDocsIndex" -> createDocsIndex(s, v)
    [] e = "createIndexLayout" -> createIndexLayout(s, v)
    [] e = "createDocsLayout" -> createDocsLayout(s, v)

\* setupDoc, lines up to the first emitter: read the manifest, take name and
\* repository, print the heading.  Reading a property of null is a TypeError.
loadMetadata(s) ==
  LET r == getParentPackageInfo(ConsoleLog(s, <<"addon root ------> ">>)) IN
  IF r.s.err # "none" THEN [s |-> r.s, name |-> Undefined, repo |-> Undefined]
  ELSE IF r.info.kind = "null"
       THEN [s |-> Throw(r.s, "TypeError"), name |-> Undefined, repo |-> Undefined]
       ELSE [s |-> ConsoleLog(r.s, <<"Setting up ember-cli-addon-docs for ", JsToString(r.info.name), "...">>),
             name |-> r.info.name, repo |-> r.info.repository]

RECURSIVE RunSequence(_, _, _, _, _)
RunSequence(order, s, v, name, repo) ==
  IF order = <<>> \/ s.err # "none" THEN s
  ELSE RunSequence(Tail(order), RunEmitter(Head(order), s, v, name, repo), v, name, repo)

\* the whole of setupDoc as one function of the process state
setupDoc(s, v) ==
  LET m == loadMetadata(s)
      r == RunSequence(SetupOrder, m.s, v, m.name, m.repo)
  IN  IF r.err # "none" THEN r ELSE ConsoleLog(r, Banner)

\* ------------------------------------------------------------ initial fs
Absent == <<"ENOENT">>

ManifestContents == {<<t>> : t \in ManifestTexts}

ReadmeContents == { <<"# My Addon">>, <<"\n", "# My Addon", "\n  ">>, <<"caf", BadByte>> }

StaleContents == { <<"stale">> }

RouterContents == StaleContents \cup {routerContent}

FileUniverse(v) ==
  {pkgPath, readmePath, routerPath(v), appTemplatePath(v), docsFile(v),
   indexLayoutPath(v), docsLayoutPath(v)}

AlwaysDirs == Ancestors(INIT_CWD)

DirUniverse(v) == UNION {Ancestors(Dirname(p)) : p \in FileUniverse(v)}

ContentChoices(v, p) ==
  {Absent} \cup
  (IF p = pkgPath THEN ManifestContents
   ELSE IF p = readmePath THEN ReadmeContents
   ELSE IF p = routerPath(v) THEN RouterContents
   ELSE StaleContents)

DirChoices(v) ==
  {D \cup AlwaysDirs : D \in {X \in SUBSET DirUniverse(v) :
                               \A d \in X : Dirname(d) \in X \cup AlwaysDirs}}

FileChoices(v, D, p) == IF Dirname(p) \in D THEN ContentChoices(v, p) ELSE {Absent}

MkFiles(G) == [p \in {q \in DOMAIN G : G[q] # Absent} |-> G[p]]

\* the well-typed trees over the paths the script touches
InitialFS(v) ==
  UNION { { [files |-> MkFiles((pkgPath :> c1) @@ (readmePath :> c2) @@ (routerPath(v) :> c3)
                               @@ (appTemplatePath(v) :> c4) @@ (docsFile(v) :> c5)
                               @@ (indexLayoutPath(v) :> c6) @@ (docsLayoutPath(v) :> c7)),
             dirs  |-> D] :
              <<c1, c2, c3, c4, c5, c6, c7>> \in
                 FileChoices(v, D, pkgPath) \X FileChoices(v, D, readmePath)
                 \X FileChoices(v, D, routerPath(v)) \X FileChoices(v, D, appTemplatePath(v))
                 \X FileChoices(v, D, docsFile(v)) \X FileChoices(v, D, indexLayoutPath(v))
                 \X FileChoices(v, D, docsLayoutPath(v)) } :
          D \in DirChoices(v) }

\* --------------------------------------------------------- state machine
Proc == [files |-> files, dirs |-> dirs, log |-> log, err |-> err, writes |-> writes]

Install(s) ==
  /\ files' = s.files
  /\ dirs' = s.dirs
  /\ log' = s.log
  /\ err' = s.err
  /\ writes' = s.writes

Init ==
  /\ variant \in Variants
  /\ \E fs \in InitialFS(variant) :
       /\ files = fs.files
       /\ dirs = fs.dirs
       /\ pre = fs
  /\ log = <<>>
  /\ err = "none"
  /\ writes = <<>>
  /\ pc = "load"
  /\ todo = Emitters
  /\ addonName = Undefined
  /\ repoUrl = Undefined
  /\ run = 1

LoadMetadata ==
  /\ pc = "load"
  /\ LET m == loadMetadata(Proc) IN
       /\ Install(m.s)
       /\ addonName' = m.name
       /\ repoUrl' = m.repo
       /\ pc' = IF m.s.err # "none" THEN "exit" ELSE "emit"
  /\ UNCHANGED <<variant, todo, run, pre>>

Step(e) ==
  /\ pc = "emit"
  /\ e \in todo
  /\ LET s == RunEmitter(e, Proc, variant, addonName, repoUrl) IN
       /\ Install(s)
       /\ pc' = IF s.err # "none" THEN "exit" ELSE "emit"
  /\ todo' = todo \ {e}
  /\ UNCHANGED <<variant, addonName, repoUrl, run, pre>>

\* the next call in the order setupDoc makes them
NextCall == IF todo = {} THEN "none"
            ELSE SetupOrder[CHOOSE i \in 1..Len(SetupOrder) :
                   /\ SetupOrder[i] \in todo
                   /\ \A j \in 1..(i - 1) : SetupOrder[j] \notin todo]

UpdateRouter == NextCall = "updateRouter" /\ Step("updateRouter")

UpdateApplicationTemplate == NextCall = "updateApplicationTemplate" /\ Step("updateApplicationTemplate")

CreateDocsIndex == NextCall = "createDocsIndex" /\ Step("createDocsIndex")

CreateIndexLayout == NextCall = "createIndexLayout" /\ Step("createIndexLayout")

CreateDocsLayout == NextCall = "createDocsLayout" /\ Step("createDocsLayout")

Finish ==
  /\ pc = "emit"
  /\ todo = {}
  /\ Install(ConsoleLog(Proc, Banner))
  /\ pc' = "exit"
  /\ UNCHANGED <<variant, todo, addonName, repoUrl, run, pre>>

\* the script is invoked again on the file system the last run left
Rerun ==
  /\ pc = "exit"
  /\ run < MaxRuns
  /\ run' = run + 1
  /\ pre' = [files |-> files, dirs |-> dirs]
  /\ log' = <<>>
  /\ err' = "none"
  /\ writes' = <<>>
  /\ pc' = "load"
  /\ todo' = Emitters
  /\ addonName' = Undefined
  /\ repoUrl' = Undefined
  /\ UNCHANGED <<variant, files, dirs>>

Next ==
  \/ LoadMetadata
  \/ UpdateRouter
  \/ UpdateApplicationTemplate
  \/ CreateDocsIndex
  \/ CreateIndexLayout
  \/ CreateDocsLayout
  \/ Finish
  \/ Rerun

Spec == Init /\ [][Next]_vars

\* the same emitters called in an arbitrary order after metadata loading
PermUpdateRouter == Step("updateRouter")

PermUpdateApplicationTemplate == Step("updateApplicationTemplate")

PermCreateDocsIndex == Step("createDocsIndex")

PermCreateIndexLayout == Step("createIndexLayout")

PermCreateDocsLayout == Step("createDocsLayout")

NextPerm ==
  \/ LoadMetadata
  \/ PermUpdateRouter
  \/ PermUpdateApplicationTemplate
  \/ PermCreateDocsIndex
  \/ PermCreateIndexLayout
  \/ PermCreateDocsLayout
  \/ Finish

SpecPerm == Init /\ [][NextPerm]_vars

\* ================================================================ claims
Ran(e) == pc # "load" /\ e \notin todo

JustRan(e) == pc # "load" /\ todo = {SetupOrder[j] : j \in {i \in 1..Len(SetupOrder) :
                                       \E k \in 1..(i - 1) : SetupOrder[k] = e}}

HasFile(p, c) == p \in DOMAIN files /\ files[p] = c

InLog(entry) == \E i \in DOMAIN log : log[i] = entry

ValidUtf8(bytes) == \A i \in DOMAIN bytes : bytes[i] # BadByte

ManifestOf(fs) ==
  IF pkgPath \in DOMAIN fs.files THEN JSONParse(Utf8Decode(fs.files[pkgPath]))
  ELSE [ok |-> TRUE, val |-> [NoManifest EXCEPT !.kind = "object"]]

\* C1: in every run in which metadata loading does not throw, when the run
\* ends index.hbs and docs.hbs both exist and hold their fixed templates.
C1_LayoutsNeverSkipped ==
  (pc = "exit" /\ err \notin {"SyntaxError", "TypeError"}) =>
     /\ HasFile(indexLayoutPath(variant), indexLayout)
     /\ HasFile(docsLayoutPath(variant), docsLayout)

\* C2: when router.js existed before the run, after updateRouter its content
\* is the fixed router template, whatever it held and whatever the manifest.
C2_RouterOverwritten ==
  (Ran("updateRouter") /\ routerPath(variant) \in DOMAIN pre.files) =>
     HasFile(routerPath(variant), routerContent)

C2_Witness ==
  /\ Ran("updateRouter")
  /\ routerPath(variant) \in DOMAIN pre.files
  /\ pre.files[routerPath(variant)] # routerContent
  /\ HasFile(routerPath(variant), routerContent)
  /\ addonName # Undefined

\* C3: when router.js did not exist before the run, nothing exists at that
\* path at any point of the run; updateRouter logs its warning, returns
\* without throwing and setupDoc goes on to the next emitter.
C3_RouterSkipped ==
  (~existsSync(pre, routerPath(variant))) =>
     /\ ~existsSync(Proc, routerPath(variant))
     /\ Ran("updateRouter") => /\ InLog(<<"warn">> \o WarnRouter)
                               /\ ~InLog(<<"log", "Updated router.js">>)
     /\ JustRan("updateRouter") => /\ pc = "emit"
                                   /\ err = "none"
                                   /\ NextCall = "updateApplicationTemplate"

C3_Witness ==
  /\ ~existsSync(pre, routerPath(variant))
  /\ Dirname(routerPath(variant)) \in pre.dirs
  /\ Ran("updateApplicationTemplate")
  /\ InLog(<<"warn">> \o WarnRouter)
  /\ ~existsSync(Proc, routerPath(variant))

C5_Placeholder ==
  (readmePath \notin DOMAIN pre.files) =>
     /\ Ran("createDocsIndex") => /\ HasFile(docsFile(variant), placeholderContent)
                                  /\ InLog(<<"warn">> \o WarnReadme)
     /\ JustRan("createDocsIndex") => pc = "emit" /\ err = "none"

C5_Witness ==
  /\ readmePath \notin DOMAIN pre.files
  /\ JustRan("createDocsIndex")
  /\ docsFile(variant) \in DOMAIN pre.files
  /\ pre.files[docsFile(variant)] # placeholderContent
  /\ HasFile(docsFile(variant), placeholderContent)

\* the text of a manifest value as the manifest gives it
Verbatim(x) == IF x.t = "undefined" THEN "undefined" ELSE x.v

Placeholders == {"${addonName}", "${repoUrl}"}

ExpectedApplication(m) ==
  <<"{{page-title \"", Verbatim(m.name), "\"}}\n<DocsHeader @prefix=\"Droid\" @name=\"",
    Verbatim(m.name), "\" @githubUrl=\"", Verbatim(m.repository), "\" />\n{{outlet}}">>

\* C6: with the manifest absent, or a JSON object lacking name or repository, the
\* run does not crash and application.hbs is written with name and repository
\* verbatim and each missing value as "undefined"; with both present no
\* unresolved placeholder remains.
C6_MissingMetadata ==
  LET m == ManifestOf(pre) IN
  /\ (m.ok /\ m.val.kind = "object"
        /\ (m.val.name = Undefined \/ m.val.repository = Undefined)) =>
        /\ err = "none"
        /\ Ran("updateApplicationTemplate") =>
              HasFile(appTemplatePath(variant), ExpectedApplication(m.val))
  /\ (m.ok /\ m.val.name # Undefined /\ m.val.repository # Undefined
        /\ Ran("updateApplicationTemplate")) =>
        /\ appTemplatePath(variant) \in DOMAIN files
        /\ \A i \in DOMAIN files[appTemplatePath(variant)] :
              files[appTemplatePath(variant)][i] \notin Placeholders

\* C7: with package.json present but not valid JSON the run ends abnormally
\* in metadata loading before any emitter: no file or directory is created
\* or modified and the success banner is not printed.
C7_MalformedManifest ==
  (pc # "load" /\ ~ManifestOf(pre).ok) =>
     /\ pc = "exit"
     /\ err = "SyntaxError"
     /\ todo = Emitters
     /\ writes = <<>>
     /\ files = pre.files
     /\ dirs = pre.dirs
     /\ ~InLog(<<"log">> \o Banner)

C7_Witness ==
  /\ pc = "exit"
  /\ run = 1
  /\ ~ManifestOf(pre).ok
  /\ err = "SyntaxError"
  /\ existsSync(pre, routerPath(variant))
  /\ ~existsSync(pre, docsDir(variant))

\* C8: a run that follows a run on the same inputs ends with every file
\* holding what it held when that run started and with no new file or
\* directory.
C8_Idempotent ==
  (run >= 2 /\ pc = "exit") => files = pre.files /\ dirs = pre.dirs

C8_Witness ==
  /\ run >= 2
  /\ pc = "exit"
  /\ Len(writes) >= 3
  /\ files = pre.files

\* C9: whatever the order of the emitter calls after metadata loading, the
\* run ends with the files and directories the order of setupDoc gives.
C9_OrderInsensitive ==
  (pc = "exit") =>
     LET r == setupDoc([files |-> pre.files, dirs |-> pre.dirs, log |-> <<>>,
                        err |-> "none", writes |-> <<>>], variant)
     IN  files = r.files /\ dirs = r.dirs

\* C10: at every file write of a run the parent directory of the target
\* exists, also when app/, app/templates/ and app/templates/docs/ were all
\* absent at the start.
C10_ParentExists ==
  /\ \A i \in DOMAIN writes : writes[i].parent
  /\ err # "ENOENT"
  /\ \A p \in DOMAIN files : Dirname(p) \in dirs

C10_Witness ==
  /\ Dirname(routerPath(variant)) \notin pre.dirs
  /\ Len(writes) >= 2
  /\ \A i \in DOMAIN writes : writes[i].parent
  /\ docsFile(variant) \in DOMAIN files
  /\ docsDir(variant) \in dirs

====
